---- MODULE Spec2Model ----
(***************************************************************************)
(* PieData (src/src/PieData/main.py): typed field validation, the record   *)
(* model with validated attribute writes and its SQL insert projection,    *)
(* and the PieDB websocket session (connect / send_command / close).       *)
(*                                                                         *)
(* Three groups of state share the module:                                 *)
(*   - the validate probe   (SpecValidate): one field, one value, result   *)
(*   - one PieModel record  (Spec):         schema, attribute values       *)
(*   - one PieDB session    (SpecDB, SpecConc): handle, connections, the   *)
(*     coroutines in flight and the transport events                       *)
(***************************************************************************)
EXTENDS Integers, Sequences, FiniteSets, TLC

VARIABLES
    \* ---- validate probe
    pfield,      \* the field whose validate is called
    pvalue,      \* the value passed to it
    presult,     \* what validate returned ("unset" before the call)
    \* ---- PieModel record
    fields,      \* cls._fields: sequence of [name, field] in declaration order
    values,      \* the instance attributes: name -> value (Absent when unset)
    phase,       \* "new" | "live" (constructed) | "failed" (__init__ raised)
    err,         \* the AttributeError raised by the last operation, or NoErr
    supplied,    \* the keyword names given to __init__
    lastWrite,   \* the key and value of the attribute write just made, or NoWrite
    out,         \* the string returned by the last _insert_into_sql, or ""
    \* ---- PieDB session
    callers,     \* the flows of control using the session
    websocket,   \* self.websocket: 0 is None, else a connection id
    conns,       \* connection id -> "unborn" | "open" | "closed"
    closeCalls,  \* number of close() calls made on the handle self.websocket
    pc,          \* caller -> where its coroutine is suspended
    call,        \* caller -> the call in flight or last finished
    wire,        \* the outcomes of send and recv ("send", "recv", "error"), oldest first
    alive        \* FALSE once __del__ has run

pvars == <<pfield, pvalue, presult>>
rvars == <<fields, values, phase, err, supplied, lastWrite, out>>
dvars == <<callers, websocket, conns, closeCalls, pc, call, wire, alive>>
vars == <<pfield, pvalue, presult, fields, values, phase, err, supplied,
          lastWrite, out,
          callers, websocket, conns, closeCalls, pc, call, wire, alive>>

----------------------------------------------------------------------------
(* Python values.  Every value is a record of the same shape so that any   *)
(* two can be compared: t is the runtime type, n the number (an int as is, *)
(* a bool as 0/1, a float in tenths), s the text (a str, or the str() of a *)
(* datetime object).                                                       *)

None == [t |-> "NoneType", n |-> 0, s |-> ""]
PyInt(i) == [t |-> "int", n |-> i, s |-> ""]
PyBool(b) == [t |-> "bool", n |-> IF b THEN 1 ELSE 0, s |-> ""]
PyFloat(tenths) == [t |-> "float", n |-> tenths, s |-> ""]
PyStr(x) == [t |-> "str", n |-> 0, s |-> x]
PyDatetime(iso) == [t |-> "datetime", n |-> 0, s |-> iso]
\* an attribute that was never set (hasattr is False)
Absent == [t |-> "absent", n |-> 0, s |-> ""]

\* isinstance(value, int): bool is a subclass of int
IsInstanceInt(value) == value.t \in {"int", "bool"}
IsInstanceFloat(value) == value.t = "float"
IsInstanceStr(value) == value.t = "str"
IsInstanceDatetime(value) == value.t = "datetime"

\* the number a value stands for, in tenths, as Python's mixed comparison sees it
Num(value) == IF value.t = "float" THEN value.n ELSE 10 * value.n

----------------------------------------------------------------------------
(* Fields.                                                                  *)

SUPPORTED_FORMATS ==
    << "%Y-%m-%dT%H:%M:%S", "%Y-%m-%dT%H:%M:%SZ", "%Y-%m-%dT%H:%M:%S%z",
       "%Y-%m-%d %H:%M:%S", "%Y-%m-%d", "%Y.%m.%d", "%d.%m.%Y", "%m/%d/%Y",
       "%H:%M:%S", "%H:%M" >>

PieField(initial_value, is_required) ==
    [cls |-> "PieField", initial_value |-> initial_value,
     is_required |-> is_required, max_length |-> None,
     max_value |-> None, min_value |-> None, formats |-> << >>]

StringField(initial_value, max_length, is_required) ==
    [cls |-> "StringField", initial_value |-> initial_value,
     is_required |-> is_required, max_length |-> max_length,
     max_value |-> None, min_value |-> None, formats |-> << >>]

IntegerField(initial_value, max_value, min_value, is_required) ==
    [cls |-> "IntegerField", initial_value |-> initial_value,
     is_required |-> is_required, max_length |-> None,
     max_value |-> max_value, min_value |-> min_value, formats |-> << >>]

FloatField(initial_value, max_value, min_value, is_required) ==
    [cls |-> "FloatField", initial_value |-> initial_value,
     is_required |-> is_required, max_length |-> None,
     max_value |-> max_value, min_value |-> min_value, formats |-> << >>]

DatetimeField(initial_value, is_required, custom_formats) ==
    [cls |-> "DatetimeField", initial_value |-> initial_value,
     is_required |-> is_required, max_length |-> None,
     max_value |-> None, min_value |-> None,
     formats |-> SUPPORTED_FORMATS \o custom_formats]

\* datetime.strptime(value, fmt) succeeds (raises no ValueError), tabulated
\* on the texts of the model; a text parses only when the whole of it matches
strptime(text, fmt) ==
    \/ text = "2024-01-02" /\ fmt = "%Y-%m-%d"
    \/ text = "12:30" /\ fmt = "%H:%M"
    \/ text = "2024" /\ fmt = "%Y"

\* PieField.validate
PieField_validate(self, value) ==
    IF ~self.is_required THEN TRUE
    ELSE (IF value # None THEN TRUE ELSE FALSE)

\* StringField._validate_length
StringField_validate_length(self, value) ==
    (self.max_length = None) \/ (Len(value.s) <= self.max_length.n)

\* StringField.validate
StringField_validate_typed(self, value) ==
    IF PieField_validate(self, value)
    THEN IsInstanceStr(value) /\ StringField_validate_length(self, value)
    ELSE FALSE
StringField_validate(self, value) ==
    IF PieField_validate(self, value)
    THEN (value = None)
         \/ (IsInstanceStr(value) /\ StringField_validate_length(self, value))
    ELSE FALSE

\* IntegerField._validate_value / FloatField._validate_value (same body)
Field_validate_value(self, value) ==
    /\ (IF self.min_value # None THEN Num(value) >= Num(self.min_value) ELSE TRUE)
    /\ (IF self.max_value # None THEN Num(value) <= Num(self.max_value) ELSE TRUE)

\* IntegerField.validate
IntegerField_validate(self, value) ==
    IF PieField_validate(self, value)
    THEN (value = None)
         \/ (IsInstanceInt(value) /\ Field_validate_value(self, value))
    ELSE FALSE

\* FloatField.validate
FloatField_validate(self, value) ==
    IF PieField_validate(self, value)
    THEN (value = None)
         \/ (IsInstanceFloat(value) /\ Field_validate_value(self, value))
    ELSE FALSE

\* DatetimeField.validate
DatetimeField_validate(self, value) ==
    IF ~PieField_validate(self, value) THEN FALSE
    ELSE IF value = None THEN TRUE
    ELSE IF IsInstanceDatetime(value) THEN TRUE
    ELSE IF IsInstanceStr(value)
         THEN \E i \in 1..Len(self.formats) : strptime(value.s, self.formats[i])
    ELSE FALSE

\* field.validate(value): the method of the field's class
validate(self, value) ==
    CASE self.cls = "PieField" -> PieField_validate(self, value)
      [] self.cls = "StringField" -> StringField_validate(self, value)
      [] self.cls = "IntegerField" -> IntegerField_validate(self, value)
      [] self.cls = "FloatField" -> FloatField_validate(self, value)
      [] self.cls = "DatetimeField" -> DatetimeField_validate(self, value)

----------------------------------------------------------------------------
(* PieModel: the record.                                                    *)

NoErr == [kind |-> "none", key |-> "", value |-> None]
NoWrite == [key |-> "", value |-> None]
\* AttributeError('Invalid value "{}" for field "{}"'.format(value, key))
InvalidValue(key, value) == [kind |-> "invalid", key |-> key, value |-> value]
\* AttributeError('Unknown field "{}"'.format(key))
UnknownField(key) == [kind |-> "unknown", key |-> key, value |-> None]

\* the names of cls._fields, in declaration order
FieldNames(flds) == [i \in 1..Len(flds) |-> flds[i].name]
\* key in self._fields
InFields(flds, key) == \E i \in 1..Len(flds) : flds[i].name = key
\* self._fields[key]
FieldOf(flds, key) == flds[CHOOSE i \in 1..Len(flds) : flds[i].name = key].field
\* hasattr(self, name)
hasattr(vals, name) == vals[name] # Absent

\* PieModel.__setattr__: the attributes afterwards and the error raised
PieModel_setattr_unchecked(flds, vals, key, value) ==
    IF InFields(flds, key)
    THEN [values |-> [vals EXCEPT ![key] = value], err |-> NoErr]
    ELSE [values |-> vals, err |-> UnknownField(key)]
PieModel_setattr_late(flds, vals, key, value) ==
    IF InFields(flds, key)
    THEN [values |-> [vals EXCEPT ![key] = value],
          err |-> IF validate(FieldOf(flds, key), value)
                  THEN NoErr ELSE InvalidValue(key, value)]
    ELSE [values |-> vals, err |-> UnknownField(key)]
PieModel_setattr(flds, vals, key, value) ==
    IF InFields(flds, key)
    THEN IF validate(FieldOf(flds, key), value)
         THEN [values |-> [vals EXCEPT ![key] = value], err |-> NoErr]
         ELSE [values |-> vals, err |-> InvalidValue(key, value)]
    ELSE [values |-> vals, err |-> UnknownField(key)]

\* PieModel.__init__, first loop: setattr(self, key, value) for each keyword,
\* in the order given, up to the first one that raises
RECURSIVE InitKwargs(_, _, _, _)
InitKwargs(flds, vals, kwargs, i) ==
    IF i > Len(kwargs) THEN [values |-> vals, err |-> NoErr]
    ELSE LET r == PieModel_setattr(flds, vals, kwargs[i].key, kwargs[i].value)
         IN  IF r.err # NoErr THEN r
             ELSE InitKwargs(flds, r.values, kwargs, i + 1)

\* PieModel.__init__, second loop, one field: a field that has no attribute
\* yet is set to field.initial_value with setattr, which is __setattr__
InitDefault_trusted(flds, vals, i) ==
    IF ~hasattr(vals, flds[i].name)
    THEN [values |-> [vals EXCEPT ![flds[i].name] = flds[i].field.initial_value],
          err |-> NoErr]
    ELSE [values |-> vals, err |-> NoErr]
InitDefault(flds, vals, i) ==
    IF ~hasattr(vals, flds[i].name)
    THEN PieModel_setattr(flds, vals, flds[i].name, flds[i].field.initial_value)
    ELSE [values |-> vals, err |-> NoErr]

RECURSIVE InitDefaults(_, _, _)
InitDefaults(flds, vals, i) ==
    IF i > Len(flds) THEN [values |-> vals, err |-> NoErr]
    ELSE LET r == InitDefault(flds, vals, i)
         IN  IF r.err # NoErr THEN r
             ELSE InitDefaults(flds, r.values, i + 1)

\* PieModel.__init__
PieModel_init(flds, vals, kwargs) ==
    LET r == InitKwargs(flds, vals, kwargs, 1)
    IN  IF r.err # NoErr THEN r ELSE InitDefaults(flds, r.values, 1)

\* str(value)
str(value) ==
    CASE value.t = "NoneType" -> "None"
      [] value.t = "int" -> ToString(value.n)
      [] value.t = "bool" -> (IF value.n = 1 THEN "True" ELSE "False")
      [] value.t = "float" ->
            (IF value.n < 0 THEN "-" ELSE "")
            \o ToString((IF value.n < 0 THEN -value.n ELSE value.n) \div 10)
            \o "." \o ToString((IF value.n < 0 THEN -value.n ELSE value.n) % 10)
      [] OTHER -> value.s

\* ", ".join(parts)
RECURSIVE join(_)
join(parts) ==
    IF Len(parts) = 0 THEN ""
    ELSE IF Len(parts) = 1 THEN parts[1]
    ELSE parts[1] \o ", " \o join(Tail(parts))

\* PieModel._parse_value
PieModel_parse_value_quoted(value) == "'" \o str(value) \o "'"
PieModel_parse_value(value) ==
    IF IsInstanceInt(value) \/ IsInstanceFloat(value) THEN str(value)
    ELSE "'" \o str(value) \o "'"

\* cls._table_name: the __qualname__ of the record class
table_name == "Person"

\* PieModel._insert_into_sql
PieModel_insert_into_sql(flds, vals) ==
    LET data == FieldNames(flds)
    IN  "insert into " \o table_name \o " (" \o join(data) \o ") values ("
        \o join([i \in 1..Len(data) |-> PieModel_parse_value(vals[data[i]])])
        \o ")"

----------------------------------------------------------------------------
(* PieDB: the session.  Each await of a coroutine is a point where it is    *)
(* suspended and another flow of control, or the peer, may run.             *)

MaxConns == 3        \* connections that may ever be opened
MaxWire == 6         \* outcomes of send and recv recorded
MaxCloseCalls == 2   \* close() calls counted on one handle

ConnIds == 1..MaxConns
Commands == {"CHECK CONNECTION", "PING"}
Responses == {"PONG", "FAIL"}
\* what the transport may raise
TransportErrors == {"OSError", "ConnectionClosed"}

NoCall == [op |-> "none", command |-> "", h |-> 0, attempts |-> 0,
           sent |-> << >>, rcvd |-> << >>, ret |-> "", fault |-> "",
           raised |-> "", done |-> TRUE]
NewCall(op, command) == [NoCall EXCEPT !.op = op, !.command = command, !.done = FALSE]

\* PieDB.connect, its condition: self.websocket is None or self.websocket.closed
NeedsConnect_always(ws, cs) == TRUE
NeedsConnect(ws, cs) == ws = 0 \/ cs[ws] = "closed"
\* PieDB.close, its condition: if self.websocket
HasHandle(ws) == ws # 0
\* websockets.connect(uri) returns a new, open connection
Unborn(cs) == {n \in ConnIds : cs[n] = "unborn"}
NewConn(cs) == CHOOSE n \in Unborn(cs) : \A m \in Unborn(cs) : n <= m

\* await self.websocket.send(command): the events put on the transport
\* (the payloads sent, in order)
Sends_twice(command) == << command, command >>
Sends(command) == << command >>
\* response = await self.websocket.recv(); return response
Returned(cl, response) == response
\* await self.websocket.close(): the connections afterwards
Closed_skipped(cs, h) == cs
Closed(cs, h) == [cs EXCEPT ![h] = "closed"]
\* loop.run_until_complete(...): what the transport raised reaches the caller
Propagated_swallowed(e) == ""
Propagated(e) == e
\* check_connection: the command it passes to command()
check_connection_command == "CHECK CONNECTION"

\* the call of caller c ends: it returns ret or raises e
Finish(cl, ret, e) ==
    [cl EXCEPT !.ret = ret, !.fault = e, !.raised = Propagated(e), !.done = TRUE]

InFlight == {c \in callers : pc[c] \in {"connecting", "sending", "receiving"}}

\* connect(), called on its own
Begin_connect(c) ==
    /\ alive /\ pc[c] = "idle"
    /\ IF NeedsConnect(websocket, conns)
       THEN /\ pc' = [pc EXCEPT ![c] = "connecting"]
            /\ call' = [call EXCEPT ![c] = [NewCall("connect", "") EXCEPT !.attempts = 1]]
       ELSE /\ pc' = pc
            /\ call' = [call EXCEPT ![c] = Finish(NewCall("connect", ""), "", "")]
    /\ UNCHANGED <<callers, websocket, conns, closeCalls, wire, alive>>

\* send_command(command), also through command() and check_connection():
\* up to its first suspension, in connect() or in send()
Begin_send_command(c, op, command) ==
    /\ alive /\ pc[c] = "idle"
    /\ Len(wire) + 2 * (Cardinality(InFlight) + 1) <= MaxWire
    /\ IF NeedsConnect(websocket, conns)
       THEN /\ pc' = [pc EXCEPT ![c] = "connecting"]
            /\ call' = [call EXCEPT ![c] = [NewCall(op, command) EXCEPT !.attempts = 1]]
       ELSE /\ pc' = [pc EXCEPT ![c] = "sending"]
            /\ call' = [call EXCEPT ![c] = [NewCall(op, command) EXCEPT !.h = websocket]]
    /\ UNCHANGED <<callers, websocket, conns, closeCalls, wire, alive>>

\* websockets.connect returns: self.websocket is assigned; send_command
\* goes on to send on it
ConnectOk(c) ==
    /\ pc[c] = "connecting" /\ Unborn(conns) # {}
    /\ LET n == NewConn(conns) IN
        /\ conns' = [conns EXCEPT ![n] = "open"]
        /\ websocket' = n
        /\ closeCalls' = 0
        /\ IF call[c].op = "connect"
           THEN /\ pc' = [pc EXCEPT ![c] = "idle"]
                /\ call' = [call EXCEPT ![c] = Finish(call[c], "", "")]
           ELSE /\ pc' = [pc EXCEPT ![c] = "sending"]
                /\ call' = [call EXCEPT ![c].h = n]
    /\ UNCHANGED <<callers, wire, alive>>

\* websockets.connect raises
ConnectFail(c, e) ==
    /\ pc[c] = "connecting"
    /\ pc' = [pc EXCEPT ![c] = "idle"]
    /\ call' = [call EXCEPT ![c] = Finish(call[c], "", e)]
    /\ UNCHANGED <<callers, websocket, conns, closeCalls, wire, alive>>

\* send completes; recv is called on what self.websocket is then
SendOk(c) ==
    /\ pc[c] = "sending" /\ conns[call[c].h] = "open"
    /\ wire' = wire \o [i \in 1..Len(Sends(call[c].command)) |-> "send"]
    /\ call' = [call EXCEPT ![c].sent = @ \o Sends(call[c].command),
                            ![c].h = websocket]
    /\ pc' = [pc EXCEPT ![c] = "receiving"]
    /\ UNCHANGED <<callers, websocket, conns, closeCalls, alive>>

\* send or recv raises; the connection may be lost with it
TransportFail(c, e, lost) ==
    /\ pc[c] \in {"sending", "receiving"}
    /\ conns[call[c].h] = "closed" => lost
    /\ conns' = IF lost THEN [conns EXCEPT ![call[c].h] = "closed"] ELSE conns
    /\ pc' = [pc EXCEPT ![c] = "idle"]
    /\ call' = [call EXCEPT ![c] = Finish(call[c], "", e)]
    /\ wire' = Append(wire, "error")
    /\ UNCHANGED <<callers, websocket, closeCalls, alive>>

\* recv returns one message, which send_command returns
RecvOk(c, response) ==
    /\ pc[c] = "receiving" /\ conns[call[c].h] = "open"
    /\ wire' = Append(wire, "recv")
    /\ call' = [call EXCEPT ![c] =
                    Finish([call[c] EXCEPT !.rcvd = Append(@, response)],
                           Returned(call[c], response), "")]
    /\ pc' = [pc EXCEPT ![c] = "idle"]
    /\ UNCHANGED <<callers, websocket, conns, closeCalls, alive>>

\* close(), or __del__ which runs close() to completion: up to the await
Begin_close(c, op) ==
    /\ alive /\ pc[c] = "idle"
    /\ op = "del" => \A d \in callers : pc[d] = "idle"
    /\ IF HasHandle(websocket)
       THEN /\ closeCalls < MaxCloseCalls
            /\ closeCalls' = closeCalls + 1
            /\ pc' = [pc EXCEPT ![c] = "closing"]
            /\ call' = [call EXCEPT ![c] = [NewCall(op, "") EXCEPT !.h = websocket]]
            /\ alive' = alive
       ELSE /\ closeCalls' = closeCalls
            /\ pc' = pc
            /\ call' = [call EXCEPT ![c] = Finish(NewCall(op, ""), "", "")]
            /\ alive' = (op # "del")
    /\ UNCHANGED <<callers, websocket, conns, wire>>

\* self.websocket.close() completes
CloseDone(c) ==
    /\ pc[c] = "closing"
    /\ conns' = Closed(conns, call[c].h)
    /\ pc' = [pc EXCEPT ![c] = "idle"]
    /\ call' = [call EXCEPT ![c] = Finish(call[c], "", "")]
    /\ alive' = (call[c].op # "del")
    /\ UNCHANGED <<callers, websocket, closeCalls, wire>>

\* the peer, or the network, ends a connection
PeerClose(n) ==
    /\ conns[n] = "open"
    /\ conns' = [conns EXCEPT ![n] = "closed"]
    /\ UNCHANGED <<callers, websocket, closeCalls, pc, call, wire, alive>>

----------------------------------------------------------------------------
(* The inputs of the model.                                                 *)

MaxFields == 2       \* fields declared by a record class
MaxKw == 2           \* keyword arguments given to a constructor

FieldNameSeq == << "name", "age", "at", "id" >>
UnknownName == "nope"
AttrNames == {FieldNameSeq[i] : i \in 1..MaxFields}

\* the fields a record class may declare
RecordFields ==
    { StringField(PyStr("Al"), PyInt(2), TRUE),
      IntegerField(None, PyInt(30), PyInt(0), TRUE),
      FloatField(PyFloat(15), PyFloat(10), None, FALSE),
      PieField(None, FALSE) }

\* the values a caller may pass
RecordValues ==
    { None, PyInt(30), PyInt(31), PyBool(TRUE), PyFloat(5), PyStr("Al"),
      PyDatetime("2024-01-02 03:04:05") }

\* the record classes: every declaration of up to MaxFields of these fields,
\* each at most once
Schemas ==
    { schema \in UNION { [1..n -> RecordFields] : n \in 0..MaxFields } :
        \A i, j \in 1..Len(schema) : i # j => schema[i] # schema[j] }
Declared(schema) ==
    [i \in 1..Len(schema) |-> [name |-> FieldNameSeq[i], field |-> schema[i]]]

\* keyword arguments: up to MaxKw distinct names, in the order given
KwKeys(flds) == {flds[i].name : i \in 1..Len(flds)} \cup {UnknownName}
Kwargs(flds) ==
    { kw \in UNION { [1..n -> [key : KwKeys(flds), value : RecordValues]] :
                       n \in 0..MaxKw } :
        \A i, j \in 1..Len(kw) : i # j => kw[i].key # kw[j].key }

\* the fields and values validate is probed with
ProbeFields ==
    { PieField(i, r) : i \in {None, PyInt(0)}, r \in BOOLEAN }
    \cup { StringField(None, m, r) : m \in {None, PyInt(0), PyInt(2)}, r \in BOOLEAN }
    \cup { IntegerField(None, hi, lo, r) :
             hi \in {None, PyInt(5)}, lo \in {None, PyInt(0)}, r \in BOOLEAN }
    \cup { FloatField(None, hi, lo, r) :
             hi \in {None, PyFloat(20)}, lo \in {None, PyFloat(0)}, r \in BOOLEAN }
    \cup { DatetimeField(None, r, cf) : r \in BOOLEAN, cf \in {<< >>, << "%Y" >>} }
ProbeValues ==
    { None, PyInt(-1), PyInt(0), PyInt(5), PyInt(30), PyBool(TRUE), PyFloat(15),
      PyFloat(-5), PyStr(""), PyStr("Al"), PyStr("Bob"), PyStr("2024-01-02"),
      PyStr("2024"), PyStr("12:30"), PyDatetime("2024-01-02 03:04:05") }

----------------------------------------------------------------------------
(* The states no specification is about: each group at rest.                *)

ProbeAtRest ==
    /\ pfield = PieField(None, FALSE) /\ pvalue = None /\ presult = "unset"
RecordAtRest ==
    /\ fields = << >> /\ values = [a \in AttrNames |-> Absent]
    /\ phase = "none" /\ err = NoErr /\ supplied = {} /\ lastWrite = NoWrite
    /\ out = ""
SessionAtRest ==
    /\ callers = {} /\ websocket = 0 /\ conns = [n \in ConnIds |-> "unborn"]
    /\ closeCalls = 0 /\ pc = << >> /\ call = << >>
    /\ wire = << >> /\ alive = FALSE

----------------------------------------------------------------------------
(* SpecValidate: validate as a function of the field and the value.         *)

InitValidate ==
    /\ pfield \in ProbeFields /\ pvalue \in ProbeValues /\ presult = "unset"
    /\ RecordAtRest /\ SessionAtRest

\* field.validate(value)
Validate ==
    /\ presult = "unset"
    /\ presult' = IF validate(pfield, pvalue) THEN "True" ELSE "False"
    /\ UNCHANGED <<pfield, pvalue>>
    /\ UNCHANGED rvars /\ UNCHANGED dvars

NextValidate == Validate
SpecValidate == InitValidate /\ [][NextValidate]_vars

----------------------------------------------------------------------------
(* Spec: one record of one record class.                                    *)

Init ==
    /\ \E schema \in Schemas : fields = Declared(schema)
    /\ values = [a \in AttrNames |-> Absent]
    /\ phase = "new" /\ err = NoErr /\ supplied = {} /\ lastWrite = NoWrite
    /\ out = ""
    /\ ProbeAtRest /\ SessionAtRest

\* Record(**kwargs)
Construct(kwargs) ==
    /\ phase = "new"
    /\ LET r == PieModel_init(fields, values, kwargs) IN
        /\ values' = r.values
        /\ err' = r.err
        /\ phase' = IF r.err = NoErr THEN "live" ELSE "failed"
    /\ supplied' = {kwargs[i].key : i \in 1..Len(kwargs)}
    /\ UNCHANGED <<fields, lastWrite, out>>
    /\ UNCHANGED pvars /\ UNCHANGED dvars

\* record.key = value
SetAttr(key, value) ==
    /\ phase = "live"
    /\ LET r == PieModel_setattr(fields, values, key, value) IN
        /\ values' = r.values
        /\ err' = r.err
    /\ lastWrite' = [key |-> key, value |-> value]
    /\ out' = ""
    /\ UNCHANGED <<fields, phase, supplied>>
    /\ UNCHANGED pvars /\ UNCHANGED dvars

\* record._insert_into_sql()
InsertIntoSql ==
    /\ phase = "live"
    /\ out' = PieModel_insert_into_sql(fields, values)
    /\ err' = NoErr
    /\ lastWrite' = NoWrite
    /\ UNCHANGED <<fields, values, phase, supplied>>
    /\ UNCHANGED pvars /\ UNCHANGED dvars

Next ==
    \/ phase = "new" /\ \E kwargs \in Kwargs(fields) : Construct(kwargs)
    \/ phase = "live" /\ \E key \in KwKeys(fields), value \in RecordValues :
                            SetAttr(key, value)
    \/ InsertIntoSql
Spec == Init /\ [][Next]_vars

----------------------------------------------------------------------------
(* SpecDB: a session used by one caller, each call run to completion.       *)
(* SpecConc: two send_command coroutines may be in flight on one session.   *)

InitSession(cs) ==
    /\ callers = cs /\ websocket = 0 /\ conns = [n \in ConnIds |-> "unborn"]
    /\ closeCalls = 0
    /\ pc = [c \in cs |-> "idle"] /\ call = [c \in cs |-> NoCall]
    /\ wire = << >> /\ alive = TRUE
    /\ ProbeAtRest /\ RecordAtRest

NextDB ==
    \/ \E c \in callers : Begin_connect(c) /\ UNCHANGED <<pvars, rvars>>
    \/ \E c \in callers, command \in Commands :
           Begin_send_command(c, "send_command", command) /\ UNCHANGED <<pvars, rvars>>
    \/ \E c \in callers :
           Begin_send_command(c, "check_connection", check_connection_command)
           /\ UNCHANGED <<pvars, rvars>>
    \/ \E c \in callers : ConnectOk(c) /\ UNCHANGED <<pvars, rvars>>
    \/ \E c \in callers, e \in TransportErrors :
           ConnectFail(c, e) /\ UNCHANGED <<pvars, rvars>>
    \/ \E c \in callers : SendOk(c) /\ UNCHANGED <<pvars, rvars>>
    \/ \E c \in callers, e \in TransportErrors, lost \in BOOLEAN :
           TransportFail(c, e, lost) /\ UNCHANGED <<pvars, rvars>>
    \/ \E c \in callers, response \in Responses :
           RecvOk(c, response) /\ UNCHANGED <<pvars, rvars>>
    \/ \E c \in callers, op \in {"close", "del"} :
           Begin_close(c, op) /\ UNCHANGED <<pvars, rvars>>
    \/ \E c \in callers : CloseDone(c) /\ UNCHANGED <<pvars, rvars>>
    \/ \E n \in ConnIds : PeerClose(n) /\ UNCHANGED <<pvars, rvars>>

\* two coroutines of send_command on one loop, and the peer
NextConc ==
    \/ \E c \in callers, command \in Commands :
           Begin_send_command(c, "send_command", command) /\ UNCHANGED <<pvars, rvars>>
    \/ \E c \in callers : ConnectOk(c) /\ UNCHANGED <<pvars, rvars>>
    \/ \E c \in callers, e \in TransportErrors :
           ConnectFail(c, e) /\ UNCHANGED <<pvars, rvars>>
    \/ \E c \in callers : SendOk(c) /\ UNCHANGED <<pvars, rvars>>
    \/ \E c \in callers, e \in TransportErrors, lost \in BOOLEAN :
           TransportFail(c, e, lost) /\ UNCHANGED <<pvars, rvars>>
    \/ \E c \in callers, response \in Responses :
           RecvOk(c, response) /\ UNCHANGED <<pvars, rvars>>
    \/ \E n \in ConnIds : PeerClose(n) /\ UNCHANGED <<pvars, rvars>>

InitDB == InitSession({1})
SpecDB == InitDB /\ [][NextDB]_vars

InitConc == InitSession({1, 2})
SpecConc == InitConc /\ [][NextConc]_vars

----------------------------------------------------------------------------
(* Properties of validate and of the record.                                *)

\* the field declared under a name
Declares(name) == InFields(fields, name)

\* C1: in every reachable state of a record, whatever the keywords it was
\* built with and the writes made since (accepted or rejected), each
\* attribute it holds is one of its class's fields and its value satisfies
\* that field's validate.
C1_ValuesValid ==
    \A a \in AttrNames :
        hasattr(values, a) =>
            Declares(a) /\ validate(FieldOf(fields, a), values[a])

\* a live record that took a write and has just rejected another one
C1_Witness ==
    /\ phase = "live" /\ err.kind = "invalid"
    /\ \E i \in 1..Len(fields) :
           values[fields[i].name] # fields[i].field.initial_value

\* C2: a rejected attribute write leaves the record as it was.  A write of a
\* value that fails the field's validate raises "invalid value" naming the
\* key and the value; a write to a name that is no field raises "unknown
\* field"; in both cases every attribute keeps its value and no attribute is
\* created.  A write that changes the record raised nothing.
C2_RejectedWriteKeeps ==
    [][ (phase = "live" /\ lastWrite' # NoWrite) =>
          LET key == lastWrite'.key
              value == lastWrite'.value
          IN  /\ fields' = fields
              /\ ~Declares(key) =>
                    /\ err' = UnknownField(key)
                    /\ values' = values
              /\ (Declares(key) /\ ~validate(FieldOf(fields, key), value)) =>
                    /\ err' = InvalidValue(key, value)
                    /\ values' = values
              /\ err' # NoErr => values' = values
              /\ values' # values => err' = NoErr ]_vars

\* a write of an invalid value to a field that holds something else than its
\* default was rejected
C2_Witness ==
    /\ phase = "live" /\ err.kind = "invalid" /\ lastWrite.key = err.key
    /\ values[err.key] \notin {Absent, FieldOf(fields, err.key).initial_value}

\* C3 as stated: the default of a field that was not supplied is not passed
\* through validate, so that construction never raises "invalid value" for
\* such a field.
C3_DefaultsTrusted ==
    phase = "failed" => ~(err.kind = "invalid" /\ err.key \notin supplied)

\* C3, amended: the constructor sets a field that was not supplied to its
\* default through the validated write.  When the constructor returns, every
\* such field holds exactly its default, and that default satisfies
\* validate; when a default fails validate the constructor raises "invalid
\* value" for that field, which stays unset, the unsupplied fields declared
\* before it holding their defaults.
C3_DefaultsValidated ==
    [][ (phase = "new" /\ phase' # "new") =>
          /\ phase' = "live" =>
                \A i \in 1..Len(fields) :
                    fields[i].name \notin supplied' =>
                        /\ values'[fields[i].name] = fields[i].field.initial_value
                        /\ validate(fields[i].field, fields[i].field.initial_value)
          /\ (phase' = "failed" /\ err'.key \notin supplied') =>
                \E i \in 1..Len(fields) :
                    /\ err' = InvalidValue(fields[i].name, fields[i].field.initial_value)
                    /\ ~validate(fields[i].field, fields[i].field.initial_value)
                    /\ ~hasattr(values', fields[i].name)
                    /\ \A j \in 1..(i - 1) :
                           fields[j].name \notin supplied' =>
                               values'[fields[j].name] = fields[j].field.initial_value ]_vars

\* a constructor given a keyword raised for the default of another field
C3_Witness ==
    /\ phase = "failed" /\ err.kind = "invalid"
    /\ supplied # {} /\ err.key \notin supplied

\* C4: for every kind of field and every setting of its constraints,
\* validate(None) is true exactly when the field is not required.
C4_NoneValidIffNotRequired ==
    (presult # "unset" /\ pvalue = None) =>
        (presult = "True" <=> ~pfield.is_required)

\* validate(None) returned false for a required text field with a maximum
\* length
C4_Witness ==
    /\ pvalue = None /\ presult = "False"
    /\ pfield.cls = "StringField" /\ pfield.max_length # None

\* the insert statement for the record, values of the runtime types in
\* bare rendered as they are and the others between single quotes
RECURSIVE Listed(_, _)
Listed(n, item) ==
    IF n = 0 THEN ""
    ELSE IF n = 1 THEN item[1]
    ELSE Listed(n - 1, item) \o ", " \o item[n]
InsertStatement(bare) ==
    LET n == Len(fields)
        col == [i \in 1..n |-> fields[i].name]
        val == [i \in 1..n |->
                   IF values[col[i]].t \in bare THEN str(values[col[i]])
                   ELSE "'" \o str(values[col[i]]) \o "'"]
    IN  "insert into " \o table_name \o " (" \o Listed(n, col)
        \o ") values (" \o Listed(n, val) \o ")"

\* C5 as stated: the insert projection lists the field names in declaration
\* order and the values in the same order, a value unquoted exactly when its
\* runtime type is integer or real.
C5_NumericUnquoted ==
    out # "" => out = InsertStatement({"int", "float"})

\* C5, amended: as stated, except that a boolean is rendered unquoted too
\* (as True or False): it passes the test for an integer.
C5_IntInstancesUnquoted ==
    out # "" => out = InsertStatement({"int", "float", "bool"})

\* the statement of Record(name="Al", age=30)
C5_Witness ==
    out = "insert into Person (name, age) values ('Al', 30)"

----------------------------------------------------------------------------
(* Properties of the session.                                               *)

OpenConns == {n \in ConnIds : conns[n] = "open"}
BornConns == {n \in ConnIds : conns[n] # "unborn"}
IsCommand(cl) == cl.op \in {"send_command", "check_connection"}
\* the call failed while establishing the connection: before it had a handle
ConnectFailed(cl) == cl.fault # "" /\ cl.h = 0

\* C6: a session used by one caller holds at most one live connection, and
\* it is the one behind its handle.  None is opened at construction; a
\* connection is opened, and the handle replaced, only when the session has
\* no handle or the connection behind it is closed; connect with a live
\* connection opens nothing and leaves the handle alone.
C6_OneLiveConnection ==
    /\ (websocket = 0 /\ BornConns = {})
    /\ [](Cardinality(OpenConns) <= 1 /\ OpenConns \subseteq {websocket})
    /\ [][ (websocket' # websocket \/ BornConns' # BornConns) =>
             /\ (websocket = 0 \/ conns[websocket] = "closed")
             /\ websocket' # 0 /\ conns'[websocket'] = "open"
             /\ BornConns' = BornConns \cup {websocket'}
             /\ websocket' \notin BornConns ]_vars

\* connect returned at once on a session whose connection, not its first,
\* is live
C6_Witness ==
    /\ call[1].op = "connect" /\ call[1].done /\ call[1].attempts = 0
    /\ websocket > 1 /\ conns[websocket] = "open"

\* the outcomes on the transport alternate: send, recv, send, recv, ...
Alternates(w) ==
    \A i \in 1..Len(w) : w[i] = (IF i % 2 = 1 THEN "send" ELSE "recv")

C8_ClosedOnce ==
    \A c \in callers : call[c].op = "close" => closeCalls <= 1

\* C8, amended: close on a session that never connected changes nothing and
\* calls nothing on the transport.  close on a session with a handle calls
\* the handle's close() (also when that connection is closed already: the
\* handle is kept, and a second close calls close() on it again), and when it
\* completes the connection behind the handle is closed, the handle and the
\* other connections as they were: after close; close the session is in the
\* state one close leaves it in.
C8_CloseIdempotent ==
    [][ \A c \in callers :
          /\ (pc[c] = "idle" /\ call'[c] # call[c] /\ call'[c].op \in {"close", "del"}) =>
                /\ websocket' = websocket /\ conns' = conns /\ wire' = wire
                /\ websocket = 0 =>
                      (closeCalls' = closeCalls /\ call'[c].done /\ pc'[c] = "idle")
                /\ websocket # 0 =>
                      (closeCalls' = closeCalls + 1 /\ pc'[c] = "closing")
          /\ (pc[c] = "closing" /\ pc'[c] # "closing") =>
                /\ websocket' = websocket /\ wire' = wire
                /\ closeCalls' = closeCalls
                /\ conns'[websocket] = "closed"
                /\ \A n \in ConnIds : n # websocket => conns'[n] = conns[n]
                /\ call'[c].done /\ call'[c].fault = "" ]_vars

\* a second close has completed on the same handle
C8_Witness ==
    /\ call[1].op = "close" /\ call[1].done /\ closeCalls = 2
    /\ websocket # 0 /\ conns[websocket] = "closed"

\* what C9 says of every call, whatever the handle
FailureSurfaces ==
    \A c \in callers :
      LET cl == call[c] IN
        /\ cl.attempts <= 1
        /\ pc[c] = "connecting" => cl.attempts = 1
        /\ cl.raised = cl.fault
        /\ cl.fault # "" => (cl.done /\ pc[c] = "idle" /\ cl.ret = "")
        /\ ConnectFailed(cl) =>
              /\ cl.attempts = 1
              /\ cl.sent = << >> /\ cl.rcvd = << >>
              /\ (websocket = 0 \/ conns[websocket] = "closed")
        /\ (cl.fault # "" /\ cl.h # 0) => Len(cl.sent) <= 1

\* C9 as stated: a call that fails to establish the connection makes one
\* attempt, raises the transport's error unchanged and sends nothing, and
\* the session is left disconnected with no connection handle.
C9_NoHandleAfterFailure ==
    /\ FailureSurfaces
    /\ \A c \in callers :
           (IsCommand(call[c]) /\ ConnectFailed(call[c])) => websocket = 0

\* C9, amended: as stated, except that the session is left disconnected with
\* its handle as it was before the call: none when it never connected,
\* otherwise the handle of its earlier connection, which is closed.  A send
\* or a receive that fails raises to the caller likewise and the call sends
\* its command at most once.
C9_FailureSurfaces ==
    /\ []FailureSurfaces
    /\ [][ \A c \in callers :
             (pc[c] = "connecting" /\ call'[c].fault # "") =>
                 /\ websocket' = websocket /\ conns' = conns /\ wire' = wire
                 /\ call'[c].fault \in TransportErrors ]_vars

\* a command failed to reconnect a session that had been connected
C9_Witness ==
    /\ IsCommand(call[1]) /\ ConnectFailed(call[1])
    /\ websocket # 0 /\ conns[websocket] = "closed"

\* C10: with two send_command calls in flight on one session the connection
\* is established once: no second establishment starts while one is
\* pending, there is never more than one live connection, and a call sends
\* only on a handle whose connection was established.
C10_EstablishedOnce ==
    /\ Cardinality({c \in callers : pc[c] = "connecting"}) <= 1
    /\ Cardinality(OpenConns) <= 1
    /\ \A c \in callers :
           pc[c] = "sending" => (call[c].h # 0 /\ conns[call[c].h] # "unborn")

====
